---------------------------- MODULE Spec2Model ----------------------------
(***************************************************************************)
(* A model of the request-dispatch layer of the Marathon client            *)
(* (src/client.go): marathonClient.apiCall with its four wrappers, the     *)
(* error values it returns, the cluster it asks for a member, and the      *)
(* listeners map of the client.                                            *)
(*                                                                         *)
(* src/client.go holds the client and apiCall.  The cluster (newCluster,   *)
(* Cluster.GetMember) and the bodies of AddEventsListener /                *)
(* RemoveEventsListener and of the event fan-out are declared or called    *)
(* there but defined in other files of the package; they are modelled      *)
(* from the design document (sections 4.1 and 4.4) and marked so below.    *)
(***************************************************************************)
EXTENDS Integers, Sequences, FiniteSets, TLC

(***************************************************************************)
(* Bounds of the model.                                                    *)
(***************************************************************************)
MaxPool == 2
MaxRequests == 4
MaxBroadcasts == 2

(***************************************************************************)
(* Error values, src/client.go:135-150, and the errors of the collaborators *)
(* (encoding/json, net/http, io/ioutil) that apiCall hands back unchanged. *)
(***************************************************************************)
Nil == "nil"
ErrInvalidEndpoint == "ErrInvalidEndpoint"
ErrInvalidResponse == "ErrInvalidResponse"
ErrDoesNotExist == "ErrDoesNotExist"
ErrMarathonDown == "ErrMarathonDown"
ErrInvalidArgument == "ErrInvalidArgument"
ErrTimeoutError == "ErrTimeoutError"
ErrConflict == "ErrConflict"

\* json.Marshal: *json.UnsupportedTypeError and the like
JSONMarshalError == "json: unsupported type"
\* http.NewRequest: the url does not parse
URLParseError == "url.Error: parse"
\* httpClient.Do / ioutil.ReadAll: http.Client.Timeout expired
ClientTimeoutExceeded == "url.Error: Client.Timeout exceeded"
\* httpClient.Do: no connection
ConnectionRefused == "url.Error: connection refused"
\* ioutil.ReadAll: the connection broke while the body was read
UnexpectedEOF == "unexpected EOF"

Pending == "pending"

(***************************************************************************)
(* The inputs of a call.                                                   *)
(***************************************************************************)
Calls == {"c1", "c2"}

Methods == {"GET", "PUT", "POST", "DELETE"}

\* a relative path that parses as part of a url, and one that does not
GoodURI == "v2/apps/app1"
BadURI == "v2/apps/%zz"
URIs == {GoodURI, BadURI}

\* body interface{}: nil, a value json.Marshal serializes, one it refuses
NoBody == "nil"
GoodBody == "Application{}"
BadBody == "chan int"
Bodies == {NoBody, GoodBody, BadBody}

(***************************************************************************)
(* JSON response bodies and result sinks.  A sink is a pointer to a Go     *)
(* struct with the fields Fields; a body is a byte string that either is   *)
(* no JSON, or is a JSON object giving some fields a value of some type.   *)
(***************************************************************************)
Fields == {"id", "instances"}

FieldType == [id |-> "string", instances |-> "number"]

Absent == [t |-> "absent", v |-> ""]

\* the zero value of a struct field
Zero == "zero"

\* "{" : not JSON
DocBadSyntax == [syntax |-> FALSE, obj |-> [f \in Fields |-> Absent]]
\* {"id":"app1"}
DocApp == [syntax |-> TRUE,
           obj |-> [id |-> [t |-> "string", v |-> "app1"], instances |-> Absent]]
\* {"id":7,"instances":2} : JSON, but "id" is no string
DocWrongShape == [syntax |-> TRUE,
                  obj |-> [id |-> [t |-> "number", v |-> "7"],
                           instances |-> [t |-> "number", v |-> "2"]]]
Docs == {DocBadSyntax, DocApp, DocWrongShape}

NoSink == [nil |-> TRUE, val |-> [f \in Fields |-> Zero]]
\* a pointer to a fresh struct
FreshSink == [nil |-> FALSE, val |-> [f \in Fields |-> Zero]]
\* a pointer to a struct that already holds values
UsedSink == [nil |-> FALSE, val |-> [id |-> "old", instances |-> "1"]]
Sinks == {NoSink, FreshSink, UsedSink}

Statuses == {199, 200, 204, 299, 300, 400, 404, 409, 500, 503}

\* json.Marshal(body), src/client.go:231
Marshal(body) ==
    IF body = BadBody THEN [err |-> JSONMarshalError, bytes |-> ""]
                      ELSE [err |-> Nil, bytes |-> body]

\* http.NewRequest(method, url, ...), src/client.go:238: fails when the url
\* does not parse (the four wrappers pass valid methods only)
NewRequest(method, url, bytes) ==
    IF url[2] = BadURI
        THEN [err |-> URLParseError, req |-> <<>>]
        ELSE [err |-> Nil, req |-> <<method, url, bytes>>]

\* json.Unmarshal(respBody, result), src/client.go:265.  encoding/json checks
\* the syntax of the whole input first and touches nothing when it is bad;
\* otherwise it stores every field of the object whose value has the field's
\* type, leaves the fields the object does not mention as they are, and
\* reports an error when some value had the wrong type.
UnmarshalErr(doc) ==
    \/ ~doc.syntax
    \/ \E f \in Fields : doc.obj[f] # Absent /\ doc.obj[f].t # FieldType[f]

Unmarshal(doc, sink) ==
    IF ~doc.syntax
        THEN [err |-> TRUE, sink |-> sink]
        ELSE [err |-> UnmarshalErr(doc),
              sink |-> [sink EXCEPT !.val =
                  [f \in Fields |->
                      IF doc.obj[f] # Absent /\ doc.obj[f].t = FieldType[f]
                          THEN doc.obj[f].v
                          ELSE sink.val[f]]]]

(***************************************************************************)
(* The cluster: an ordered sequence of members and a cursor.  newCluster   *)
(* and GetMember are not part of src/client.go; they follow section 4.1    *)
(* of the design document: round-robin over the sequence, InvalidEndpoint  *)
(* on an empty pool.                                                       *)
(***************************************************************************)
newCluster(m) == [members |-> [i \in 1..m |-> i], cursor |-> 1]

GetMember(cl) ==
    IF Len(cl.members) = 0
        THEN [err |-> ErrInvalidEndpoint, member |-> 0, cluster |-> cl]
        ELSE [err |-> Nil,
              member |-> cl.members[cl.cursor],
              cluster |-> [cl EXCEPT !.cursor = (cl.cursor % Len(cl.members)) + 1]]

(***************************************************************************)
(* State.                                                                  *)
(*   config, cluster        marathonClient.config, marathonClient.cluster  *)
(*   pc, call               where each call of apiCall stands, its locals  *)
(*   result, ret            the caller's result sink, the error returned   *)
(*   hist                   what happened to each call (history only)      *)
(*   invoked, requests,     calls made, endpoints requested, and how often *)
(*   selected               each member was handed out (history only)      *)
(*   env                    the callers and the server answers of the run  *)
(*   listeners,             marathonClient.listeners and subscribedToSSE   *)
(*   subscribedToSSE                                                       *)
(*   events, delivered      the broadcasts made and the events each        *)
(*                          listener received from each                    *)
(*   unsubscribed           the handles whose removal completed and that   *)
(*                          were not registered again (history only)       *)
(***************************************************************************)
VARIABLES config, cluster, pc, call, result, ret, hist, invoked, requests,
          selected, env, listeners, subscribedToSSE, events, delivered,
          unsubscribed

dispatchVars == <<config, cluster, pc, call, result, ret, hist, invoked,
                  requests, selected, env>>
registryVars == <<listeners, subscribedToSSE, events, delivered, unsubscribed>>
vars == <<config, cluster, pc, call, result, ret, hist, invoked, requests,
          selected, env, listeners, subscribedToSSE, events, delivered,
          unsubscribed>>

NoRequest == [method |-> "", url |-> <<0, "">>, body |-> "", auth |-> <<>>,
              contentType |-> "", accept |-> ""]

\* the locals of a call that is not running
NoLocals == [method |-> "", uri |-> "", body |-> NoBody, marathon |-> 0,
             request |-> NoRequest, status |-> 0]

NoHistory == [prior |-> NoSink, asked |-> 0, poolErr |-> FALSE, member |-> 0,
              uri |-> "", body |-> NoBody, exchanges |-> 0, sentTo |-> 0,
              transport |-> Nil, status |-> 0, gotDoc |-> FALSE,
              doc |-> DocBadSyntax, overlapped |-> FALSE]

InFlight(c) == pc[c] \in {"GetMember", "Build", "Do", "ReadAll"}

\* "return err": the call ends, its locals are gone
Return(c, err) ==
    /\ pc' = [pc EXCEPT ![c] = "done"]
    /\ call' = [call EXCEPT ![c] = NoLocals]
    /\ ret' = [ret EXCEPT ![c] = err]

(***************************************************************************)
(* apiCall, src/client.go:220-284, in the steps at which other calls and   *)
(* the network can interleave.                                             *)
(***************************************************************************)
\* the call is made: src/client.go:220
ApiCall(c, method, uri, body, sink) ==
    /\ c \in env.callers
    /\ pc[c] \in {"idle", "done"}
    /\ invoked < MaxRequests
    /\ invoked' = invoked + 1
    /\ pc' = [pc EXCEPT ![c] = "GetMember"]
    /\ call' = [call EXCEPT ![c] =
                   [NoLocals EXCEPT !.method = method, !.uri = uri, !.body = body]]
    /\ result' = [result EXCEPT ![c] = sink]
    /\ ret' = [ret EXCEPT ![c] = Pending]
    /\ hist' = [hist EXCEPT ![c] =
                   [NoHistory EXCEPT !.prior = sink, !.uri = uri, !.body = body]]
    /\ UNCHANGED <<config, cluster, requests, selected, env>>
    /\ UNCHANGED registryVars

\* src/client.go:204-218
apiGet(c, uri, post, sink) == ApiCall(c, "GET", uri, post, sink)

apiPut(c, uri, post, sink) == ApiCall(c, "PUT", uri, post, sink)

apiPost(c, uri, post, sink) == ApiCall(c, "POST", uri, post, sink)

apiDelete(c, uri, post, sink) == ApiCall(c, "DELETE", uri, post, sink)

\* ApiCallGetMember that asks the cluster twice and uses the second answer
ApiCallGetMemberTwice(c) ==
    LET m == GetMember(GetMember(cluster).cluster) IN
    /\ pc[c] = "GetMember"
    /\ cluster' = m.cluster
    /\ requests' = requests + 1
    /\ IF m.err # Nil
          THEN /\ Return(c, m.err)
               /\ selected' = selected
               /\ hist' = [hist EXCEPT ![c].asked = @ + 1, ![c].poolErr = TRUE]
          ELSE /\ pc' = [pc EXCEPT ![c] = "Build"]
               /\ call' = [call EXCEPT ![c].marathon = m.member]
               /\ ret' = ret
               /\ selected' = [selected EXCEPT ![m.member] = @ + 1]
               /\ hist' = [hist EXCEPT ![c].asked = @ + 1, ![c].member = m.member]
    /\ UNCHANGED <<config, result, invoked, env>>
    /\ UNCHANGED registryVars

\* src/client.go:221-225: one member is asked of the cluster
ApiCallGetMember(c) ==
    LET m == GetMember(cluster) IN
    /\ pc[c] = "GetMember"
    /\ cluster' = m.cluster
    /\ requests' = requests + 1
    /\ IF m.err # Nil
          THEN /\ Return(c, m.err)
               /\ selected' = selected
               /\ hist' = [hist EXCEPT ![c].asked = @ + 1, ![c].poolErr = TRUE]
          ELSE /\ pc' = [pc EXCEPT ![c] = "Build"]
               /\ call' = [call EXCEPT ![c].marathon = m.member]
               /\ ret' = ret
               /\ selected' = [selected EXCEPT ![m.member] = @ + 1]
               /\ hist' = [hist EXCEPT ![c].asked = @ + 1, ![c].member = m.member]
    /\ UNCHANGED <<config, result, invoked, env>>
    /\ UNCHANGED registryVars

\* ApiCallBuild that drops the error of json.Marshal
ApiCallBuildIgnoresMarshalErr(c) ==
    LET url == <<call[c].marathon, call[c].uri>>
        jsonBody == IF call[c].body # NoBody
                       THEN Marshal(call[c].body)
                       ELSE [err |-> Nil, bytes |-> ""]
        built == NewRequest(call[c].method, url, jsonBody.bytes)
    IN
    /\ pc[c] = "Build"
    /\ IF built.err # Nil
          THEN Return(c, built.err)
          ELSE /\ pc' = [pc EXCEPT ![c] = "Do"]
               /\ call' = [call EXCEPT ![c].request =
                     [method |-> built.req[1], url |-> built.req[2],
                      body |-> built.req[3], auth |-> <<>>,
                      contentType |-> "application/json",
                      accept |-> "application/json"]]
               /\ ret' = ret
    /\ UNCHANGED <<config, cluster, result, hist, invoked, requests, selected, env>>
    /\ UNCHANGED registryVars

\* src/client.go:227-248: the url, the serialized body, the request and its
\* headers
ApiCallBuild(c) ==
    LET url == <<call[c].marathon, call[c].uri>>
        jsonBody == IF call[c].body # NoBody
                       THEN Marshal(call[c].body)
                       ELSE [err |-> Nil, bytes |-> ""]
        built == NewRequest(call[c].method, url, jsonBody.bytes)
        auth == IF config.HTTPBasicAuthUser # ""
                   THEN <<config.HTTPBasicAuthUser, config.HTTPBasicPassword>>
                   ELSE <<>>
    IN
    /\ pc[c] = "Build"
    /\ IF jsonBody.err # Nil
          THEN Return(c, jsonBody.err)
          ELSE IF built.err # Nil
          THEN Return(c, built.err)
          ELSE /\ pc' = [pc EXCEPT ![c] = "Do"]
               /\ call' = [call EXCEPT ![c].request =
                     [method |-> built.req[1], url |-> built.req[2],
                      body |-> built.req[3], auth |-> auth,
                      contentType |-> "application/json",
                      accept |-> "application/json"]]
               /\ ret' = ret
    /\ UNCHANGED <<config, cluster, result, hist, invoked, requests, selected, env>>
    /\ UNCHANGED registryVars

\* what r.httpClient.Do can come back with: a response with a status, or an
\* error; the timeout error only when http.Client.Timeout is set
\* (src/client.go:183-185; a zero Timeout means no timeout)
DoOutcomes ==
    [err : {Nil}, status : env.statuses]
    \cup [err : {ConnectionRefused}
                \cup (IF config.RequestTimeout > 0 THEN {ClientTimeoutExceeded} ELSE {}),
          status : {0}]

\* ApiCallDo that starts over with another member when the exchange fails
ApiCallDoRetries(c, out) ==
    /\ pc[c] = "Do"
    /\ hist' = [hist EXCEPT ![c].exchanges = @ + 1,
                            ![c].sentTo = call[c].request.url[1],
                            ![c].transport = out.err,
                            ![c].status = out.status,
                            ![c].overlapped = \E d \in Calls \ {c} : InFlight(d)]
    /\ IF out.err # Nil
          THEN /\ pc' = [pc EXCEPT ![c] = "GetMember"]
               /\ UNCHANGED <<call, ret>>
          ELSE /\ pc' = [pc EXCEPT ![c] = "ReadAll"]
               /\ call' = [call EXCEPT ![c].status = out.status]
               /\ ret' = ret
    /\ UNCHANGED <<config, cluster, result, invoked, requests, selected, env>>
    /\ UNCHANGED registryVars

\* src/client.go:250-253: the request goes to the member of its url
ApiCallDo(c, out) ==
    /\ pc[c] = "Do"
    /\ hist' = [hist EXCEPT ![c].exchanges = @ + 1,
                            ![c].sentTo = call[c].request.url[1],
                            ![c].transport = out.err,
                            ![c].status = out.status,
                            ![c].overlapped = \E d \in Calls \ {c} : InFlight(d)]
    /\ IF out.err # Nil
          THEN Return(c, out.err)
          ELSE /\ pc' = [pc EXCEPT ![c] = "ReadAll"]
               /\ call' = [call EXCEPT ![c].status = out.status]
               /\ ret' = ret
    /\ UNCHANGED <<config, cluster, result, invoked, requests, selected, env>>
    /\ UNCHANGED registryVars

\* what ioutil.ReadAll(response.Body) can come back with: the whole body, or
\* an error (the connection broke; the client's timeout ran out meanwhile)
ReadOutcomes ==
    [err : {Nil}, doc : env.docs]
    \cup [err : {UnexpectedEOF}
                \cup (IF config.RequestTimeout > 0 THEN {ClientTimeoutExceeded} ELSE {}),
          doc : {DocBadSyntax}]

\* classify with the 409 branch lost
classifyDropsConflict(status, respBody, sink) ==
    IF status >= 200 /\ status <= 299
        THEN IF ~sink.nil
                THEN LET u == Unmarshal(respBody, sink) IN
                     IF u.err THEN [err |-> ErrInvalidResponse, sink |-> u.sink]
                              ELSE [err |-> Nil, sink |-> u.sink]
                ELSE [err |-> Nil, sink |-> sink]
    ELSE IF status = 404 THEN [err |-> ErrDoesNotExist, sink |-> sink]
    ELSE [err |-> ErrInvalidResponse, sink |-> sink]

\* classify that never decodes the body
classifySkipsDecode(status, respBody, sink) ==
    IF status >= 200 /\ status <= 299 THEN [err |-> Nil, sink |-> sink]
    ELSE IF status = 404 THEN [err |-> ErrDoesNotExist, sink |-> sink]
    ELSE IF status = 409 THEN [err |-> ErrConflict, sink |-> sink]
    ELSE [err |-> ErrInvalidResponse, sink |-> sink]

\* classify that decodes the body of a 200 only
classifyDecodesOnly200(status, respBody, sink) ==
    IF status >= 200 /\ status <= 299
        THEN IF ~sink.nil /\ status = 200
                THEN LET u == Unmarshal(respBody, sink) IN
                     IF u.err THEN [err |-> ErrInvalidResponse, sink |-> u.sink]
                              ELSE [err |-> Nil, sink |-> u.sink]
                ELSE [err |-> Nil, sink |-> sink]
    ELSE IF status = 404 THEN [err |-> ErrDoesNotExist, sink |-> sink]
    ELSE IF status = 409 THEN [err |-> ErrConflict, sink |-> sink]
    ELSE [err |-> ErrInvalidResponse, sink |-> sink]

\* src/client.go:263-284: the error returned for a status and a body, and
\* what the sink holds then (the log.Printf calls change nothing of it)
classify(status, respBody, sink) ==
    IF status >= 200 /\ status <= 299
        THEN IF ~sink.nil
                THEN LET u == Unmarshal(respBody, sink) IN
                     IF u.err THEN [err |-> ErrInvalidResponse, sink |-> u.sink]
                              ELSE [err |-> Nil, sink |-> u.sink]
                ELSE [err |-> Nil, sink |-> sink]
    ELSE IF status = 404 THEN [err |-> ErrDoesNotExist, sink |-> sink]
    ELSE IF status = 409 THEN [err |-> ErrConflict, sink |-> sink]
    ELSE IF status >= 500 THEN [err |-> ErrInvalidResponse, sink |-> sink]
    ELSE [err |-> ErrInvalidResponse, sink |-> sink]

\* ApiCallReadAll that drops the error of ReadAll
ApiCallReadAllIgnoresErr(c, read) ==
    LET r == classify(call[c].status, read.doc, result[c]) IN
    /\ pc[c] = "ReadAll"
    /\ Return(c, r.err)
    /\ result' = [result EXCEPT ![c] = r.sink]
    /\ hist' = [hist EXCEPT ![c].transport = read.err,
                            ![c].gotDoc = (read.err = Nil), ![c].doc = read.doc]
    /\ UNCHANGED <<config, cluster, invoked, requests, selected, env>>
    /\ UNCHANGED registryVars

\* ApiCallReadAll that keeps the response in a place all calls share
ApiCallReadAllShared(c, read) ==
    LET d == CHOOSE d \in Calls : pc[d] = "ReadAll" IN
    /\ pc[c] = "ReadAll"
    /\ IF read.err # Nil
          THEN /\ Return(c, read.err)
               /\ result' = result
               /\ hist' = [hist EXCEPT ![c].transport = read.err]
          ELSE LET r == classify(call[d].status, read.doc, result[c]) IN
               /\ Return(c, r.err)
               /\ result' = [result EXCEPT ![c] = r.sink]
               /\ hist' = [hist EXCEPT ![c].gotDoc = TRUE, ![c].doc = read.doc]
    /\ UNCHANGED <<config, cluster, invoked, requests, selected, env>>
    /\ UNCHANGED registryVars

\* src/client.go:254-284: the body is read, then the status decides
ApiCallReadAll(c, read) ==
    /\ pc[c] = "ReadAll"
    /\ IF read.err # Nil
          THEN /\ Return(c, read.err)
               /\ result' = result
               /\ hist' = [hist EXCEPT ![c].transport = read.err]
          ELSE LET r == classify(call[c].status, read.doc, result[c]) IN
               /\ Return(c, r.err)
               /\ result' = [result EXCEPT ![c] = r.sink]
               /\ hist' = [hist EXCEPT ![c].gotDoc = TRUE, ![c].doc = read.doc]
    /\ UNCHANGED <<config, cluster, invoked, requests, selected, env>>
    /\ UNCHANGED registryVars

(***************************************************************************)
(* The listeners of the client: marathonClient.listeners, a map from a     *)
(* channel to the mask of the events it wants, under the client's RWMutex  *)
(* (src/client.go:152-168).  AddEventsListener and RemoveEventsListener    *)
(* are declared at src/client.go:114-117; their bodies and the fan-out of  *)
(* an event are not part of src/client.go and follow section 4.4 of the    *)
(* design document: add and remove change the map under the write lock, a  *)
(* broadcast takes the listeners that match under the read lock and hands  *)
(* the event to each of them on its own, outside the lock.                 *)
(***************************************************************************)
Handles == {"h1", "h2"}

\* event ids are distinct bits, filters are masks of them
EventIDs == {1, 2}
Filters == {1, 3}

RECURSIVE BitAnd(_, _)
BitAnd(a, b) ==
    IF a = 0 \/ b = 0 THEN 0
    ELSE (IF a % 2 = 1 /\ b % 2 = 1 THEN 1 ELSE 0) + 2 * BitAnd(a \div 2, b \div 2)

\* does a listener with this filter want the event
Wants(filter, id) == BitAnd(filter, id) # 0

\* the channel is registered with its filter, or its filter replaced; the
\* event stream of the client is set up once, by the first registration
AddEventsListener(h, filter) ==
    /\ listeners' = [g \in DOMAIN listeners \cup {h} |->
                        IF g = h THEN filter ELSE listeners[g]]
    /\ subscribedToSSE' = TRUE
    /\ unsubscribed' = unsubscribed \ {h}
    /\ UNCHANGED <<events, delivered>>
    /\ UNCHANGED dispatchVars

\* RemoveEventsListener that leaves the channel in the map
RemoveEventsListenerKeeps(h) ==
    /\ listeners' = listeners
    /\ unsubscribed' = unsubscribed \cup {h}
    /\ UNCHANGED <<subscribedToSSE, events, delivered>>
    /\ UNCHANGED dispatchVars

\* the channel is taken out of the map; nothing to do when it is not there
RemoveEventsListener(h) ==
    /\ listeners' = [g \in DOMAIN listeners \ {h} |-> listeners[g]]
    /\ unsubscribed' = unsubscribed \cup {h}
    /\ UNCHANGED <<subscribedToSSE, events, delivered>>
    /\ UNCHANGED dispatchVars

\* Broadcast that hands the event to every listener, whatever its filter
BroadcastToAll(id) ==
    /\ Len(events) < MaxBroadcasts
    /\ events' = Append(events,
                   [id |-> id, at |-> listeners, excluded |-> unsubscribed,
                    pending |-> DOMAIN listeners])
    /\ delivered' = Append(delivered, [h \in Handles |-> 0])
    /\ UNCHANGED <<listeners, subscribedToSSE, unsubscribed>>
    /\ UNCHANGED dispatchVars

\* an event arrives: the listeners that want it are taken from the map, one
\* handoff is started for each
Broadcast(id) ==
    /\ Len(events) < MaxBroadcasts
    /\ events' = Append(events,
                   [id |-> id, at |-> listeners, excluded |-> unsubscribed,
                    pending |-> {h \in DOMAIN listeners : Wants(listeners[h], id)}])
    /\ delivered' = Append(delivered, [h \in Handles |-> 0])
    /\ UNCHANGED <<listeners, subscribedToSSE, unsubscribed>>
    /\ UNCHANGED dispatchVars

\* one handoff completes: the listener receives the event
Deliver(b, h) ==
    /\ b \in 1..Len(events)
    /\ h \in events[b].pending
    /\ events' = [events EXCEPT ![b].pending = @ \ {h}]
    /\ delivered' = [delivered EXCEPT ![b][h] = @ + 1]
    /\ UNCHANGED <<listeners, subscribedToSSE, unsubscribed>>
    /\ UNCHANGED dispatchVars

(***************************************************************************)
(* NewClient, src/client.go:172-188: the state after construction.  When   *)
(* newCluster fails NewClient returns its error and there is no client     *)
(* (lines 175-177).  apiCall provides for GetMember failing (lines         *)
(* 223-225) and the pool contract says when: on a pool without a member.   *)
(* The clusters a client is started with here therefore include that one   *)
(* (URL = 0 members), next to the pools of 1..MaxPool members.             *)
(***************************************************************************)
Configs ==
    [URL : 0..MaxPool, HTTPBasicAuthUser : {"", "admin"},
     HTTPBasicPassword : {"secret"}, RequestTimeout : {0, 5}]

\* one caller, every answer of the server
EnvOne ==
    [callers |-> {"c1"}, uris |-> URIs, bodies |-> Bodies, statuses |-> Statuses,
     docs |-> Docs, sinks |-> Sinks, configs |-> Configs]

\* concurrent callers, one answer of each kind
EnvMany ==
    [callers |-> Calls, uris |-> {GoodURI}, bodies |-> {NoBody, BadBody},
     statuses |-> {200, 404}, docs |-> {DocBadSyntax, DocApp},
     sinks |-> {NoSink, FreshSink},
     configs |-> {cf \in Configs : cf.HTTPBasicAuthUser = "" /\ cf.RequestTimeout > 0}]

\* the registry alone
EnvRegistry ==
    [callers |-> {}, uris |-> {}, bodies |-> {}, statuses |-> {}, docs |-> {},
     sinks |-> {},
     configs |-> {cf \in Configs : /\ cf.HTTPBasicAuthUser = ""
                                  /\ cf.RequestTimeout > 0
                                  /\ cf.URL = 1}]

NewClient(cf, e) ==
    /\ config = cf
    /\ cluster = newCluster(cf.URL)
    /\ listeners = [h \in {} |-> 0]
    /\ subscribedToSSE = FALSE
    /\ env = e
    /\ pc = [c \in Calls |-> "idle"]
    /\ call = [c \in Calls |-> NoLocals]
    /\ result = [c \in Calls |-> NoSink]
    /\ ret = [c \in Calls |-> Nil]
    /\ hist = [c \in Calls |-> NoHistory]
    /\ invoked = 0
    /\ requests = 0
    /\ selected = [i \in 1..MaxPool |-> 0]
    /\ events = <<>>
    /\ delivered = <<>>
    /\ unsubscribed = {}

Init == \E cf \in EnvOne.configs : NewClient(cf, EnvOne)

InitMany == \E cf \in EnvMany.configs : NewClient(cf, EnvMany)

NextDispatch ==
    \/ \E c \in Calls, u \in env.uris, b \in env.bodies, k \in env.sinks : apiGet(c, u, b, k)
    \/ \E c \in Calls, u \in env.uris, b \in env.bodies, k \in env.sinks : apiPut(c, u, b, k)
    \/ \E c \in Calls, u \in env.uris, b \in env.bodies, k \in env.sinks : apiPost(c, u, b, k)
    \/ \E c \in Calls, u \in env.uris, b \in env.bodies, k \in env.sinks : apiDelete(c, u, b, k)
    \/ \E c \in Calls : ApiCallGetMember(c)
    \/ \E c \in Calls : ApiCallBuild(c)
    \/ \E c \in Calls : \E out \in DoOutcomes : ApiCallDo(c, out)
    \/ \E c \in Calls : \E read \in ReadOutcomes : ApiCallReadAll(c, read)

\* one caller at a time
Spec == Init /\ [][NextDispatch]_vars

\* concurrent callers
SpecMany == InitMany /\ [][NextDispatch]_vars

InitRegistry == \E cf \in EnvRegistry.configs : NewClient(cf, EnvRegistry)

NextRegistry ==
    \/ \E h \in Handles, f \in Filters : AddEventsListener(h, f)
    \/ \E h \in Handles : RemoveEventsListener(h)
    \/ \E id \in EventIDs : Broadcast(id)
    \/ \E b \in 1..MaxBroadcasts, h \in Handles : Deliver(b, h)

\* the listeners and the events alone
SpecRegistry == InitRegistry /\ [][NextRegistry]_vars

(***************************************************************************)
(* Properties.                                                             *)
(***************************************************************************)
Success(status) == status >= 200 /\ status <= 299

\* the call ended after its response was read whole
Answered(c) == pc[c] = "done" /\ hist[c].gotDoc

\* what a body decodes to on its own: the fields it gives, zero elsewhere
Decoded(doc) ==
    [f \in Fields |-> IF doc.obj[f] # Absent THEN doc.obj[f].v ELSE Zero]

\* C1: a call answered with a status outside 200-299 returns ErrDoesNotExist
\* exactly for 404, ErrConflict exactly for 409, ErrInvalidResponse for every
\* other status, and never success.
C1_NonSuccessStatusClassified ==
    \A c \in Calls :
        (Answered(c) /\ ~Success(hist[c].status)) =>
            /\ (ret[c] = ErrDoesNotExist) <=> (hist[c].status = 404)
            /\ (ret[c] = ErrConflict) <=> (hist[c].status = 409)
            /\ hist[c].status \notin {404, 409} => ret[c] = ErrInvalidResponse
            /\ ret[c] # Nil

C1_Witness ==
    \E c \in Calls :
        /\ Answered(c)
        /\ hist[c].status = 409
        /\ ret[c] = ErrConflict

\* C2 as stated: a call answered with a 2xx status returns nil when no sink
\* was given or the body decodes into the sink, and the sink then holds
\* exactly the decoded content of the body.
C2_SinkIsExactlyDecodedContent ==
    \A c \in Calls :
        (/\ Answered(c)
         /\ Success(hist[c].status)
         /\ (hist[c].prior.nil \/ ~UnmarshalErr(hist[c].doc))) =>
            /\ ret[c] = Nil
            /\ ~hist[c].prior.nil => result[c].val = Decoded(hist[c].doc)

\* C2, amended: a call answered with a 2xx status returns nil when no sink was
\* given or the body decodes into the sink; the sink then holds the decoded
\* value in every field the body gives and, in every other field, what it
\* held before the call; a sink that was empty before the call holds exactly
\* the decoded content.
C2_SinkHoldsDecodedOverPrior ==
    \A c \in Calls :
        (/\ Answered(c)
         /\ Success(hist[c].status)
         /\ (hist[c].prior.nil \/ ~UnmarshalErr(hist[c].doc))) =>
            /\ ret[c] = Nil
            /\ hist[c].prior.nil => result[c] = hist[c].prior
            /\ ~hist[c].prior.nil =>
                  \A f \in Fields :
                      result[c].val[f] =
                          IF hist[c].doc.obj[f] # Absent
                              THEN hist[c].doc.obj[f].v
                              ELSE hist[c].prior.val[f]
            /\ hist[c].prior = FreshSink => result[c].val = Decoded(hist[c].doc)

C2_Witness ==
    \E c \in Calls :
        /\ Answered(c)
        /\ hist[c].status = 204
        /\ hist[c].doc = DocApp
        /\ hist[c].prior = UsedSink
        /\ ret[c] = Nil
        /\ result[c].val = [id |-> "app1", instances |-> "1"]

\* C3 as stated: a call answered with a 2xx status and a body that is no JSON
\* returns ErrInvalidResponse.
C3_BadBodyIsInvalidResponse ==
    \A c \in Calls :
        (Answered(c) /\ Success(hist[c].status) /\ ~hist[c].doc.syntax) =>
            ret[c] = ErrInvalidResponse

\* C3, amended: a call answered with a 2xx status and a body that is no JSON
\* returns ErrInvalidResponse, whichever 2xx status it was, when a result sink
\* was given; without a sink the body is not decoded and the call returns nil.
C3_BadBodyIsInvalidResponseWithSink ==
    \A c \in Calls :
        (Answered(c) /\ Success(hist[c].status) /\ ~hist[c].doc.syntax) =>
            /\ ~hist[c].prior.nil => ret[c] = ErrInvalidResponse
            /\ hist[c].prior.nil => ret[c] = Nil

C3_Witness ==
    \E c \in Calls :
        /\ Answered(c)
        /\ hist[c].status = 299
        /\ ~hist[c].doc.syntax
        /\ ~hist[c].prior.nil
        /\ ret[c] = ErrInvalidResponse

\* the client's timeout ran out during the exchange of the call
TimedOut(c) == pc[c] = "done" /\ hist[c].transport = ClientTimeoutExceeded

C5_RoundRobinFairness ==
    LET M == Len(cluster.members) IN
    /\ M > 0 => \A i \in 1..M : selected[i] >= requests \div M
    /\ M = 0 => \A c \in Calls :
                   hist[c].asked > 0 => pc[c] = "done" /\ ret[c] = ErrInvalidEndpoint

C5_Witness ==
    /\ Len(cluster.members) = 2
    /\ requests = 3
    /\ selected[1] = 2
    /\ selected[2] = 1

\* what the call's own inputs and its own exchange make of it
OwnOutcome(c) ==
    LET h == hist[c] IN
    IF h.poolErr THEN [err |-> ErrInvalidEndpoint, sink |-> h.prior]
    ELSE IF h.body = BadBody THEN [err |-> JSONMarshalError, sink |-> h.prior]
    ELSE IF h.uri = BadURI THEN [err |-> URLParseError, sink |-> h.prior]
    ELSE IF h.transport # Nil THEN [err |-> h.transport, sink |-> h.prior]
    ELSE classify(h.status, h.doc, h.prior)

\* C8: with calls running concurrently, what a call returns and leaves in its
\* sink is decided by its own inputs and the response to its own exchange,
\* and its request goes to the member the pool gave to it.
C8_OutcomeIsOwn ==
    \A c \in Calls :
        /\ pc[c] = "done" =>
              /\ ret[c] = OwnOutcome(c).err
              /\ result[c] = OwnOutcome(c).sink
        /\ hist[c].exchanges > 0 => hist[c].sentTo = hist[c].member

C8_Witness ==
    \E c, d \in Calls :
        /\ c # d
        /\ pc[c] = "done" /\ pc[d] = "done"
        /\ hist[c].overlapped /\ hist[d].overlapped
        /\ hist[c].member # hist[d].member
        /\ hist[c].status = 200 /\ ret[c] = Nil /\ result[c].val.id = "app1"
        /\ hist[d].status = 404 /\ ret[d] = ErrDoesNotExist

\* C9: a call asks the pool for one endpoint, once, and makes at most one
\* exchange; when the pool gives none it returns ErrInvalidEndpoint and has
\* made no exchange.
C9_NoRetry ==
    \A c \in Calls :
        /\ hist[c].asked <= 1
        /\ hist[c].exchanges <= 1
        /\ pc[c] = "done" => hist[c].asked = 1
        /\ hist[c].exchanges = 1 => hist[c].asked = 1
        /\ hist[c].poolErr =>
              /\ pc[c] = "done"
              /\ ret[c] = ErrInvalidEndpoint
              /\ hist[c].exchanges = 0

C9_Witness ==
    \E c \in Calls :
        /\ pc[c] = "done"
        /\ hist[c].transport = ConnectionRefused
        /\ ret[c] = ConnectionRefused
        /\ hist[c].asked = 1
        /\ hist[c].exchanges = 1

\* the call got a member and then had a body to serialize that json.Marshal
\* refuses
MarshalFailed(c) == hist[c].member # 0 /\ hist[c].body = BadBody

HasBit(filter, id) == (filter \div id) % 2 = 1

\* the listener was registered, with a filter that has the event's bit, when
\* the event was broadcast
WantedAt(b, h) ==
    /\ h \in DOMAIN events[b].at
    /\ HasBit(events[b].at[h], events[b].id)

\* C6: a broadcast made after RemoveEventsListener(h) completed, and before h
\* is registered again, delivers nothing to h; removing a handle that is not
\* registered leaves the listeners as they are.
C6_RemovedIsNeverReached ==
    /\ [](\A b \in 1..Len(events) : \A h \in events[b].excluded :
             delivered[b][h] = 0 /\ h \notin events[b].pending)
    /\ [][\A h \in Handles :
             (RemoveEventsListener(h) /\ h \notin DOMAIN listeners)
                 => listeners' = listeners]_vars

C6_Witness ==
    \E h \in Handles :
        /\ Len(events) = 2
        /\ events[1].id = events[2].id
        /\ WantedAt(1, h)
        /\ delivered[1][h] = 1
        /\ h \in events[2].excluded
        /\ events[2].pending = {}
        /\ delivered[2][h] = 0

\* C7: a broadcast hands its event once to every listener registered at that
\* moment whose filter matches, and never to another; when its handoffs are
\* done each of those listeners has received the event exactly once.
C7_BroadcastReachesExactlyMatching ==
    \A b \in 1..Len(events) : \A h \in Handles :
        /\ delivered[b][h] <= 1
        /\ ~WantedAt(b, h) => delivered[b][h] = 0 /\ h \notin events[b].pending
        /\ WantedAt(b, h) => (delivered[b][h] = 1) <=> (h \notin events[b].pending)

C7_Witness ==
    \E b \in 1..Len(events) : \E g, h \in Handles :
        /\ events[b].pending = {}
        /\ WantedAt(b, g)
        /\ delivered[b][g] = 1
        /\ h \in DOMAIN events[b].at
        /\ ~WantedAt(b, h)
        /\ delivered[b][h] = 0
===========================================================================
